---- MODULE Spec2Model ----
(***************************************************************************)
(* A model of the productivity backend: the document-store adapter        *)
(* (database.py), the request handlers and the derived views (main.py).   *)
(*                                                                         *)
(* Conventions.  Python's None is the string "None" for string fields,    *)
(* NoDate for date fields and NoneTime for datetime fields.  A document is *)
(* a record; only the fields some handler reads or writes are kept, plus  *)
(* _id, created_at and updated_at.  A store identifier (ObjectId) is a     *)
(* natural number; an identifier string is a record [wf, n]: wf says the  *)
(* string is 24 hexadecimal characters, n is the number they spell.       *)
(***************************************************************************)
EXTENDS Integers, Sequences, FiniteSets, TLC

VARIABLES
    dbAvail,    \* database.py:19-26  db is not None
    clock,      \* datetime.now(timezone.utc), in ticks
    today,      \* date.today()
    store,      \* the collections of the database: name -> sequence of documents
    nextOid,    \* the next ObjectId the store assigns
    resp,       \* the response (or error) of the request handled last
    pc,         \* login: where each in-flight request stands
    loc         \* login: each in-flight request's payload and what find_one gave it

vars == <<dbAvail, clock, today, store, nextOid, resp, pc, loc>>

---------------------------------------------------------------------------
(* Bounds of the model *)

MaxClock == 1
MaxEvents == 2
MaxPrioDocs == 4
MaxDashDocs == 6
MaxLogs == 6
MaxAIDocs == 3
MaxUsers == 3

---------------------------------------------------------------------------
(* Values *)

None == "None"
NoneTime == -1
NoDate == [y |-> 0, m |-> 0, d |-> 0]

Collections ==
    {"user", "task", "event", "focusblock", "goal", "healthlog", "mealplan",
     "familyitem", "contact", "note", "habit", "airequest"}

Users == {"ana@x.pt", "rui@x.pt"}

D(y, m, d) == [y |-> y, m |-> m, d |-> d]

Truthy(s) == s # None /\ s # ""

\* x or y, on strings
OrElse(x, y) == IF Truthy(x) THEN x ELSE y

\* str.lower() on the strings of the model
Lower(s) ==
    CASE s = "URGENT" -> "urgent"
      [] s = "Urgent" -> "urgent"
      [] s = "High" -> "high"
      [] s = "LOW" -> "low"
      [] s = "Organiza" -> "organiza"
      [] s = "Semana" -> "semana"
      [] s = "ALIMENTAR" -> "alimentar"
      [] OTHER -> s

Min(a, b) == IF a <= b THEN a ELSE b

\* s[:n]
Take(s, n) == SubSeq(s, 1, Min(n, Len(s)))

RECURSIVE FirstWith(_, _, _, _)
\* the index, from i on, of the first document of s whose field f is v; 0 if none
FirstWith(s, f, v, i) ==
    IF i > Len(s) THEN 0
    ELSE IF s[i][f] = v THEN i
    ELSE FirstWith(s, f, v, i + 1)

---------------------------------------------------------------------------
(* Dates *)

IsLeap(y) == (y % 4 = 0 /\ y % 100 # 0) \/ y % 400 = 0

DaysInMonth(y, m) ==
    IF m = 2 THEN (IF IsLeap(y) THEN 29 ELSE 28)
    ELSE IF m \in {4, 6, 9, 11} THEN 30 ELSE 31

\* days since 1970-01-01 of a proleptic Gregorian date
DaysFromCivil(dt) ==
    LET y == IF dt.m <= 2 THEN dt.y - 1 ELSE dt.y
        era == y \div 400
        yoe == y - era * 400
        mp == IF dt.m > 2 THEN dt.m - 3 ELSE dt.m + 9
        doy == (153 * mp + 2) \div 5 + dt.d - 1
        doe == yoe * 365 + yoe \div 4 - yoe \div 100 + doy
    IN era * 146097 + doe - 719468

SecondsPerDay == 86400

\* int(datetime.combine(d, datetime.min.time()).timestamp()), the process's
\* local time zone being UTC
Timestamp(dt) == DaysFromCivil(dt) * SecondsPerDay

RECURSIVE AddDays(_, _)
\* d + timedelta(days=n), n >= 0
AddDays(dt, n) ==
    IF n = 0 THEN dt
    ELSE IF dt.d < DaysInMonth(dt.y, dt.m) THEN AddDays(D(dt.y, dt.m, dt.d + 1), n - 1)
    ELSE IF dt.m < 12 THEN AddDays(D(dt.y, dt.m + 1, 1), n - 1)
    ELSE AddDays(D(dt.y + 1, 1, 1), n - 1)

---------------------------------------------------------------------------
(* Identifiers *)

\* str(ObjectId)
StrOfOid(n) == [wf |-> TRUE, n |-> n]

\* the strings that are no 24-character hexadecimal string
MalformedIds == {[wf |-> FALSE, n |-> 0]}

\* bson.objectid.ObjectId(s) raises InvalidId unless s is well formed
OidValid(s) == s.wf

OidOf(s) == s.n

---------------------------------------------------------------------------
(* Responses: the request handled last, and what its caller got *)

NoBody == [x |-> 0]

NoResp == [op |-> "none", req |-> NoBody, status |-> "none", body |-> NoBody]

Ok(op, req, body) == [op |-> op, req |-> req, status |-> "ok", body |-> body]

\* database.py:32,68,78  raise Exception("Database not available. ...")
Unavailable(op, req) ==
    [op |-> op, req |-> req, status |-> "store_unavailable", body |-> NoBody]

\* main.py:106  HTTPException(status_code=404, detail="Event not found or unchanged")
NotFound(op, req) == [op |-> op, req |-> req, status |-> "404", body |-> NoBody]

\* database.py:82  ObjectId(doc_id) raises bson.errors.InvalidId; nothing catches it
InvalidId(op, req) == [op |-> op, req |-> req, status |-> "invalid_id", body |-> NoBody]

---------------------------------------------------------------------------
(* database.py: the document-store adapter *)

\* the values datetime.now() can return at a second reading within one call
Later == {c \in {clock, clock + 1} : c <= MaxClock}

\* database.py:40-41  the two timestamps of a new document
Stamp(data, oid, c1, c2) ==
    [_id |-> oid, created_at |-> c1, updated_at |-> c2] @@ data

\* create_document once db is known to be set: the clock is read twice (c2 is
\* the second reading), the document is inserted under a fresh ObjectId
InsertOne(coll, data, c2) ==
    /\ store' = [store EXCEPT ![coll] = Append(@, Stamp(data, nextOid, clock, c2))]
    /\ nextOid' = nextOid + 1
    /\ clock' = c2

\* _normalize_docs: ObjectId -> str
NormalizeDocs(docs) ==
    [i \in 1..Len(docs) |-> [docs[i] EXCEPT !._id = StrOfOid(@)]]

\* A filter is the sequence of its conditions [f, op, v]: field f equals v, or
\* is at least v ($gte), or at most v ($lte)
Eq(f, v) == [f |-> f, op |-> "eq", v |-> v]
Gte(f, v) == [f |-> f, op |-> "gte", v |-> v]
Lte(f, v) == [f |-> f, op |-> "lte", v |-> v]

Holds(x, op, v) ==
    CASE op = "eq" -> x = v
      [] op = "gte" -> x >= v
      [] op = "lte" -> x <= v

\* collection.find(filter)
Matches(d, filt) == \A i \in 1..Len(filt) : Holds(d[filt[i].f], filt[i].op, filt[i].v)

\* get_documents once db is known to be set; limit 0 stands for no limit
GetDocuments(coll, filt, limit) ==
    LET found == SelectSeq(store[coll], LAMBDA d : Matches(d, filt))
    IN NormalizeDocs(IF limit # 0 THEN Take(found, limit) ELSE found)

\* a $set that also restamps created_at
SetFieldsAndCreated(doc, updates) ==
    updates @@ [doc EXCEPT !.created_at = updates.updated_at]

\* $set
SetFields(doc, updates) == updates @@ doc

\* the first document of the collection with this _id, 0 when there is none
FindById(coll, oid) == FirstWith(store[coll], "_id", oid, 1)

\* update_one({"_id": oid}, {"$set": updates}): the collection afterwards
UpdateOne(coll, oid, updates) ==
    LET i == FindById(coll, oid)
    IN IF i = 0 THEN store[coll]
       ELSE [store[coll] EXCEPT ![i] = SetFields(@, updates)]

\* update_document once db is known to be set and doc_id parsed: the store
\* afterwards; modified_count is 1 exactly when the matched document changed
UpdateDocument(coll, oid, updates) ==
    [store EXCEPT ![coll] =
        UpdateOne(coll, oid, [updated_at |-> clock] @@ updates)]

ModifiedCount(coll, oid, updates) ==
    IF UpdateDocument(coll, oid, updates)[coll] # store[coll] THEN 1 ELSE 0

---------------------------------------------------------------------------
(* main.py: events *)

EventInputs ==
    {[user_id |-> u, title |-> "Standup", description |-> None,
      category |-> "personal", start_time |-> 9, end_time |-> 10,
      location |-> None, all_day |-> FALSE] : u \in {"ana@x.pt"}}

\* EventUpdate payloads
NoUpdate ==
    [start_time |-> NoneTime, end_time |-> NoneTime, title |-> None,
     location |-> None, category |-> None]

EventUpdates ==
    {NoUpdate,
     [NoUpdate EXCEPT !.title = "Review", !.location = "Lisboa", !.category = "professional"],
     [NoUpdate EXCEPT !.start_time = 14, !.end_time = 15]}

IsNone(k, v) == IF k \in {"start_time", "end_time"} THEN v = NoneTime ELSE v = None

\* {k: v for k, v in payload.model_dump().items() if v is not None}
Supplied(payload) ==
    [k \in {f \in DOMAIN payload : ~IsNone(f, payload[f])} |-> payload[k]]

create_event(event) ==
    IF ~dbAvail
    THEN /\ resp' = Unavailable("create_event", event)
         /\ UNCHANGED <<dbAvail, clock, today, store, nextOid, pc, loc>>
    ELSE /\ \E c2 \in Later : InsertOne("event", event, c2)
         /\ resp' = Ok("create_event", event, [id |-> StrOfOid(nextOid)])
         /\ UNCHANGED <<dbAvail, today, pc, loc>>

update_event(event_id, payload) ==
    LET req == [id |-> event_id, payload |-> payload]
        updates == Supplied(payload)
    IN /\ IF ~dbAvail
          THEN resp' = Unavailable("update_event", req) /\ UNCHANGED store
          ELSE IF ~OidValid(event_id)
          THEN resp' = InvalidId("update_event", req) /\ UNCHANGED store
          ELSE /\ store' = UpdateDocument("event", OidOf(event_id), updates)
               /\ resp' = IF ModifiedCount("event", OidOf(event_id), updates) = 0
                          THEN NotFound("update_event", req)
                          ELSE Ok("update_event", req, [id |-> event_id])
       /\ UNCHANGED <<dbAvail, clock, today, nextOid, pc, loc>>

list_events(user_id, start, end) ==
    LET req == [user_id |-> user_id, start |-> start, end |-> end]
    IN /\ resp' = IF ~dbAvail THEN Unavailable("list_events", req)
                  ELSE Ok("list_events", req,
                          [docs |-> GetDocuments("event",
                               <<Eq("user_id", user_id)>> \o
                                   (IF start # NoneTime /\ end # NoneTime
                                    THEN <<Gte("start_time", start), Lte("end_time", end)>>
                                    ELSE <<>>),
                               500)])
       /\ UNCHANGED <<dbAvail, clock, today, store, nextOid, pc, loc>>

\* time passes between requests
Tick ==
    /\ clock < MaxClock
    /\ clock' = clock + 1
    /\ UNCHANGED <<dbAvail, today, store, nextOid, resp, pc, loc>>

---------------------------------------------------------------------------
(* The store under event creation, partial update and listing *)

EmptyStore == [c \in Collections |-> <<>>]

Today0 == D(2026, 11, 3)

Procs == {1, 2}

Idle == [p \in Procs |-> "idle"]
NoLocal == [email |-> None, name |-> None, found |-> FALSE, found_name |-> None]
NoLoc == [p \in Procs |-> NoLocal]

InitStore ==
    /\ dbAvail = TRUE
    /\ clock = 0
    /\ today = Today0
    /\ store = EmptyStore
    /\ nextOid = 0
    /\ resp = NoResp
    /\ pc = Idle
    /\ loc = NoLoc

EventIds == {StrOfOid(n) : n \in 0..nextOid} \cup MalformedIds

NextStore ==
    \/ \E e \in EventInputs : Len(store["event"]) < MaxEvents /\ create_event(e)
    \/ \E id \in EventIds, p \in EventUpdates : update_event(id, p)
    \/ Tick

SpecStore == InitStore /\ [][NextStore]_vars

---------------------------------------------------------------------------
(* Claims on the store adapter, under SpecStore *)

Last(s) == s[Len(s)]

\* C6: create_document stamps every inserted document with created_at equal to
\* updated_at: whenever a step inserts a document into a collection, the new
\* document's two timestamps are equal.
C6_CreatedEqualsUpdatedAtInsert ==
    [][\A c \in Collections :
          Len(store'[c]) = Len(store[c]) + 1
              => Last(store'[c]).created_at = Last(store'[c]).updated_at]_vars

\* what a successful update of event_id with payload may change
UpdateFrame(event_id, payload) ==
    LET i == FindById("event", OidOf(event_id))
        old == store["event"][i]
        new == store'["event"][i]
    IN /\ i # 0
       /\ \A c \in Collections \ {"event"} : store'[c] = store[c]
       /\ Len(store'["event"]) = Len(store["event"])
       /\ \A j \in 1..Len(store["event"]) : j # i => store'["event"][j] = store["event"][j]
       /\ DOMAIN new = DOMAIN old
       /\ \A f \in DOMAIN old :
            IF f \in DOMAIN payload /\ ~IsNone(f, payload[f]) THEN new[f] = payload[f]
            ELSE IF f = "updated_at" THEN new[f] >= old[f]
            ELSE new[f] = old[f]

\* no collection loses a document or has one replaced by another
NothingRemoved ==
    \A c \in Collections :
        /\ Len(store'[c]) >= Len(store[c])
        /\ \A i \in 1..Len(store[c]) : store'[c][i]._id = store[c][i]._id

\* C7: a successful PATCH /events/{id} changes, on the matched document only,
\* exactly the fields supplied with non-null values plus updated_at, which does
\* not go back; _id, created_at, the other fields, the other documents and
\* collections stay, and no step removes a document.
C7_UpdateChangesOnlySuppliedFields ==
    [][/\ ( /\ resp'.op = "update_event" /\ resp'.status = "ok"
            /\ update_event(resp'.req.id, resp'.req.payload) )
            => UpdateFrame(resp'.req.id, resp'.req.payload)
       /\ NothingRemoved]_vars

\* two events, the first updated (title and time range) after the clock moved,
\* the second as inserted
C7_Witness ==
    /\ resp.op = "update_event" /\ resp.status = "ok"
    /\ Len(store["event"]) = 2
    /\ store["event"][1].title = "Review"
    /\ store["event"][1].location = "Lisboa"
    /\ store["event"][1].start_time = 14
    /\ store["event"][1].updated_at > store["event"][1].created_at
    /\ store["event"][2].title = "Standup"

EventExists(id) == OidValid(id) /\ FindById("event", OidOf(id)) # 0

\* C8: PATCH /events/{id} with an id that identifies no existing event, well
\* formed or not, ends with 404 'Event not found or unchanged'.
C8_UnknownIdGives404 ==
    (resp.op = "update_event" /\ ~EventExists(resp.req.id)) => resp.status = "404"

---------------------------------------------------------------------------
(* main.py: tasks and POST /ai/prioritize *)

TaskDoc(u, prio, due, done) ==
    [user_id |-> u, title |-> "Task", description |-> None, scope |-> "personal",
     labels |-> <<>>, priority |-> prio, due_date |-> due, completed |-> done]

create_task(task) ==
    IF ~dbAvail
    THEN /\ resp' = Unavailable("create_task", task)
         /\ UNCHANGED <<dbAvail, clock, today, store, nextOid, pc, loc>>
    ELSE /\ \E c2 \in Later : InsertOne("task", task, c2)
         /\ resp' = Ok("create_task", task, [id |-> StrOfOid(nextOid)])
         /\ UNCHANGED <<dbAvail, today, pc, loc>>

\* main.py:238  prio_weight.get(p, 2)
PrioWeight(p) ==
    CASE p = "urgent" -> 4
      [] p = "high" -> 3
      [] p = "medium" -> 2
      [] p = "low" -> 1
      [] OTHER -> 2

DueConstant == 9999999

\* score(t) without .lower()
ScoreCaseSensitive(t) ==
    <<PrioWeight(OrElse(t.priority, "medium")),
      IF t.due_date = NoDate THEN 0 ELSE DueConstant - Timestamp(t.due_date)>>

\* main.py:239-243  score(t)
Score(t) ==
    <<PrioWeight(Lower(OrElse(t.priority, "medium"))),
      IF t.due_date = NoDate THEN 0 ELSE DueConstant - Timestamp(t.due_date)>>

\* tuple comparison, a > b
KeyGreater(a, b) == a[1] > b[1] \/ (a[1] = b[1] /\ a[2] > b[2])

RECURSIVE FirstSmaller(_, _, _)
\* the index, from i on, of the first task of sorted whose score is below x's
FirstSmaller(sorted, x, i) ==
    IF i > Len(sorted) THEN Len(sorted) + 1
    ELSE IF KeyGreater(Score(x), Score(sorted[i])) THEN i
    ELSE FirstSmaller(sorted, x, i + 1)

\* x put into a descending sequence behind every task whose score is not smaller
InsertDesc(sorted, x) ==
    LET at == FirstSmaller(sorted, x, 1)
    IN SubSeq(sorted, 1, at - 1) \o <<x>> \o SubSeq(sorted, at, Len(sorted))

RECURSIVE SortedDescFrom(_, _, _)
SortedDescFrom(s, i, acc) ==
    IF i > Len(s) THEN acc
    ELSE SortedDescFrom(s, i + 1, InsertDesc(acc, s[i]))

\* sorted(s, key=score, reverse=True): descending, equal scores in their
\* original order
SortedDesc(s) == SortedDescFrom(s, 1, <<>>)

PrioritizeLimit == 100
TopN == 7

\* main.py:245
Projected(t) ==
    [_id |-> t._id, title |-> t.title, priority |-> t.priority, due_date |-> t.due_date]

\* main.py:236-246  the response body, computed from the store
SuggestedOrder(user_id) ==
    LET tasks == GetDocuments("task",
                     <<Eq("user_id", user_id), Eq("completed", FALSE)>>,
                     PrioritizeLimit)
        ordered == SortedDesc(tasks)
        top == Take(ordered, TopN)
    IN [i \in 1..Len(top) |-> Projected(top[i])]

AuditDoc(user_id, kind, parameters) ==
    [user_id |-> user_id, kind |-> kind, parameters |-> parameters]

ai_prioritize(user_id, context) ==
    LET req == [user_id |-> user_id, context |-> context]
    IN IF ~dbAvail
       THEN /\ resp' = Unavailable("ai_prioritize", req)
            /\ UNCHANGED <<dbAvail, clock, today, store, nextOid, pc, loc>>
       ELSE /\ \E c2 \in Later :
                 InsertOne("airequest",
                     AuditDoc(user_id, "prioritize", [context |-> OrElse(context, "")]), c2)
            /\ resp' = Ok("ai_prioritize", req, [suggested_order |-> SuggestedOrder(user_id)])
            /\ UNCHANGED <<dbAvail, today, pc, loc>>

---------------------------------------------------------------------------
(* Tasks are created and prioritized.  The view reads no timestamp: the clock
   stands at its cap *)

Tomorrow0 == D(2026, 11, 4)

PrioTaskInputs ==
    {TaskDoc("ana@x.pt", p, d, FALSE) :
        p \in {"URGENT", "High", "low", ""}, d \in {NoDate, Today0, Tomorrow0}}
    \cup {TaskDoc("ana@x.pt", "URGENT", Today0, TRUE),
          TaskDoc("rui@x.pt", "URGENT", Today0, FALSE)}

InitPrio ==
    /\ dbAvail = TRUE
    /\ clock = MaxClock
    /\ today = Today0
    /\ store = EmptyStore
    /\ nextOid = 0
    /\ resp = NoResp
    /\ pc = Idle
    /\ loc = NoLoc

NextPrio ==
    \/ \E t \in PrioTaskInputs : nextOid < MaxPrioDocs /\ create_task(t)
    \/ \E u \in Users : nextOid < MaxPrioDocs /\ ai_prioritize(u, None)

SpecPrio == InitPrio /\ [][NextPrio]_vars

---------------------------------------------------------------------------
(* Claims on the prioritization, under SpecPrio *)

\* urgent 4 > high 3 > medium 2 > low 1, whatever the case; anything else 2
ClaimedWeight(priority) ==
    LET p == Lower(priority)
    IN IF p = "urgent" THEN 4 ELSE IF p = "high" THEN 3 ELSE IF p = "low" THEN 1 ELSE 2

\* date a is before date b
Before(a, b) ==
    \/ a.y < b.y
    \/ a.y = b.y /\ a.m < b.m
    \/ a.y = b.y /\ a.m = b.m /\ a.d < b.d

\* the incomplete tasks of the user, as stored, in the order the store returns them
IncompleteOf(user_id) ==
    SelectSeq(store["task"], LAMBDA d : d.user_id = user_id /\ d.completed = FALSE)

Prioritized == resp.op = "ai_prioritize" /\ resp.status = "ok"

\* C1: the suggested order holds the incomplete tasks of the user, each once.
\* Of two returned tasks the one of higher priority weight comes first; of two
\* of equal weight that both have a due date, the one due earlier comes first;
\* two with the same weight and the same due date (or both without) keep the
\* order in which they were fetched.
C1_PrioritizeOrder ==
    Prioritized =>
        LET order == resp.body.suggested_order
            fetched == IncompleteOf(resp.req.user_id)
        IN /\ Len(order) = Min(TopN, Len(fetched))
           /\ \A i \in 1..Len(order) :
                \E k \in 1..Len(fetched) :
                    /\ order[i]._id = StrOfOid(fetched[k]._id)
                    /\ order[i].priority = fetched[k].priority
                    /\ order[i].due_date = fetched[k].due_date
           /\ \A i, j \in 1..Len(order) :
                i < j =>
                    LET a == order[i]
                        b == order[j]
                    IN /\ a._id # b._id
                       /\ ClaimedWeight(a.priority) >= ClaimedWeight(b.priority)
                       /\ ( /\ ClaimedWeight(a.priority) = ClaimedWeight(b.priority)
                            /\ a.due_date # NoDate /\ b.due_date # NoDate )
                            => ~Before(b.due_date, a.due_date)
                       /\ ( /\ ClaimedWeight(a.priority) = ClaimedWeight(b.priority)
                            /\ a.due_date = b.due_date )
                            => OidOf(a._id) < OidOf(b._id)

\* the three tasks of the example, inserted low (due tomorrow) first, then urgent due
\* tomorrow, then urgent due today, come back as urgent today, urgent tomorrow, low
C1_Witness ==
    /\ Prioritized
    /\ Len(resp.body.suggested_order) = 3
    /\ resp.body.suggested_order[1] =
          [_id |-> StrOfOid(2), title |-> "Task", priority |-> "URGENT", due_date |-> Today0]
    /\ resp.body.suggested_order[2] =
          [_id |-> StrOfOid(1), title |-> "Task", priority |-> "URGENT", due_date |-> Tomorrow0]
    /\ resp.body.suggested_order[3] =
          [_id |-> StrOfOid(0), title |-> "Task", priority |-> "low", due_date |-> Tomorrow0]

\* C2: among returned tasks of equal priority weight, every task that has a due
\* date comes before every task that has none.
C2_UndatedTasksLast ==
    Prioritized =>
        LET order == resp.body.suggested_order
        IN \A i, j \in 1..Len(order) :
              ( /\ i < j
                /\ ClaimedWeight(order[i].priority) = ClaimedWeight(order[j].priority) )
                => ~(order[i].due_date = NoDate /\ order[j].due_date # NoDate)

---------------------------------------------------------------------------
(* main.py: contacts, health logs, habits and GET /dashboard *)

ContactDoc(u, name, birthday) ==
    [user_id |-> u, name |-> name, email |-> None, phone |-> None, notes |-> None,
     birthday |-> birthday]

HealthDoc(u, type, value) ==
    [user_id |-> u, type |-> type, value |-> value, note |-> None, timestamp |-> clock]

HabitDoc(u) == [user_id |-> u, name |-> "Water", target_per_day |-> 1, done_today |-> 0]

create_contact(c) ==
    IF ~dbAvail
    THEN /\ resp' = Unavailable("create_contact", c)
         /\ UNCHANGED <<dbAvail, clock, today, store, nextOid, pc, loc>>
    ELSE /\ \E c2 \in Later : InsertOne("contact", c, c2)
         /\ resp' = Ok("create_contact", c, [id |-> StrOfOid(nextOid)])
         /\ UNCHANGED <<dbAvail, today, pc, loc>>

create_health(log) ==
    IF ~dbAvail
    THEN /\ resp' = Unavailable("create_health", log)
         /\ UNCHANGED <<dbAvail, clock, today, store, nextOid, pc, loc>>
    ELSE /\ \E c2 \in Later : InsertOne("healthlog", log, c2)
         /\ resp' = Ok("create_health", log, [id |-> StrOfOid(nextOid)])
         /\ UNCHANGED <<dbAvail, today, pc, loc>>

create_habit(h) ==
    IF ~dbAvail
    THEN /\ resp' = Unavailable("create_habit", h)
         /\ UNCHANGED <<dbAvail, clock, today, store, nextOid, pc, loc>>
    ELSE /\ \E c2 \in Later : InsertOne("habit", h, c2)
         /\ resp' = Ok("create_habit", h, [id |-> StrOfOid(nextOid)])
         /\ UNCHANGED <<dbAvail, today, pc, loc>>

DashTaskLimit == 20
DashEventLimit == 50
DashHabitLimit == 20
DashEnergyLimit == 5
DashContactLimit == 500
DefaultEnergy == 70
AlertLimit == 5

\* a birthday matched on the day of the month alone
IsBirthdayByDay(b) == b # NoDate /\ b.d = today.d

\* main.py:290-291
IsBirthday(b) == b # NoDate /\ b.m = today.m /\ b.d = today.d

RECURSIVE BirthdayAlertsFrom(_, _)
BirthdayAlertsFrom(contacts, i) ==
    IF i > Len(contacts) THEN <<>>
    ELSE (IF IsBirthday(contacts[i].birthday)
          THEN <<[type |-> "birthday", name |-> contacts[i].name]>> ELSE <<>>)
         \o BirthdayAlertsFrom(contacts, i + 1)

\* main.py:288-292
BirthdayAlerts(contacts) == BirthdayAlertsFrom(contacts, 1)

RECURSIVE DeadlineAlertsFrom(_, _)
DeadlineAlertsFrom(tasks, i) ==
    IF i > Len(tasks) THEN <<>>
    ELSE (IF tasks[i].due_date = today
          THEN <<[type |-> "deadline", title |-> tasks[i].title]>> ELSE <<>>)
         \o DeadlineAlertsFrom(tasks, i + 1)

\* main.py:294-296
DeadlineAlerts(tasks) == DeadlineAlertsFrom(tasks, 1)

\* main.py:308
Energy(health_today) ==
    IF health_today # <<>> THEN health_today[Len(health_today)].value ELSE DefaultEnergy

Recommendations == <<"prioridades", "bloco de foco", "hidrata-te">>

\* main.py:279-311  the response body
DashboardBody(user_id) ==
    LET tasks == GetDocuments("task",
                     <<Eq("user_id", user_id), Eq("completed", FALSE)>>, DashTaskLimit)
        events == GetDocuments("event", <<Eq("user_id", user_id)>>, DashEventLimit)
        habits == GetDocuments("habit", <<Eq("user_id", user_id)>>, DashHabitLimit)
        health_today == GetDocuments("healthlog",
                            <<Eq("user_id", user_id), Eq("type", "energy")>>,
                            DashEnergyLimit)
        contacts == GetDocuments("contact", <<Eq("user_id", user_id)>>, DashContactLimit)
        alerts == BirthdayAlerts(contacts) \o DeadlineAlerts(tasks)
    IN [tasks |-> tasks, events |-> events, habits |-> habits,
        energy |-> Energy(health_today),
        alerts |-> Take(alerts, AlertLimit),
        recommendations |-> Recommendations]

\* a dashboard that answers from an empty store when db is None
dashboard_degraded(user_id) ==
    /\ resp' = Ok("dashboard", [user_id |-> user_id], DashboardBody(user_id))
    /\ UNCHANGED <<dbAvail, clock, today, store, nextOid, pc, loc>>

dashboard(user_id) ==
    LET req == [user_id |-> user_id]
    IN /\ resp' = IF ~dbAvail THEN Unavailable("dashboard", req)
                  ELSE Ok("dashboard", req, DashboardBody(user_id))
       /\ UNCHANGED <<dbAvail, clock, today, store, nextOid, pc, loc>>

---------------------------------------------------------------------------
(* Contacts and tasks are created and the dashboard is read.  The view reads no
   timestamp: the clock stands at its cap.  nextOid counts the documents
   inserted so far *)

DashContactInputs ==
    {ContactDoc("ana@x.pt", "Bea", D(1990, 11, 3)),
     ContactDoc("ana@x.pt", "Carl", D(1990, 12, 3)),
     ContactDoc("rui@x.pt", "Eva", D(1985, 11, 3))}

DashTaskInputs ==
    {TaskDoc("ana@x.pt", "medium", Today0, FALSE),
     TaskDoc("ana@x.pt", "medium", Tomorrow0, FALSE),
     TaskDoc("ana@x.pt", "medium", Today0, TRUE)}

InitDash ==
    /\ dbAvail = TRUE
    /\ clock = MaxClock
    /\ today = Today0
    /\ store = EmptyStore
    /\ nextOid = 0
    /\ resp = NoResp
    /\ pc = Idle
    /\ loc = NoLoc

NextDash ==
    \/ \E c \in DashContactInputs : nextOid < MaxDashDocs /\ create_contact(c)
    \/ \E t \in DashTaskInputs : nextOid < MaxDashDocs /\ create_task(t)
    \/ \E u \in Users : dashboard(u)

SpecDash == InitDash /\ [][NextDash]_vars

---------------------------------------------------------------------------
(* Health logs are created and the dashboard is read *)

EnergyLogInputs ==
    {HealthDoc("ana@x.pt", "energy", 40),
     HealthDoc("ana@x.pt", "energy", 80),
     HealthDoc("ana@x.pt", "mood", 3),
     HealthDoc("rui@x.pt", "energy", 55)}

InitEnergy ==
    /\ dbAvail = TRUE
    /\ clock = MaxClock
    /\ today = Today0
    /\ store = EmptyStore
    /\ nextOid = 0
    /\ resp = NoResp
    /\ pc = Idle
    /\ loc = NoLoc

NextEnergy ==
    \/ \E h \in EnergyLogInputs : Len(store["healthlog"]) < MaxLogs /\ create_health(h)
    \/ \E u \in Users : dashboard(u)

SpecEnergy == InitEnergy /\ [][NextEnergy]_vars

---------------------------------------------------------------------------
(* Claims on the dashboard *)

DashboardRead == resp.op = "dashboard" /\ resp.status = "ok"

\* the contacts of the user with today's month and day as birthday
BirthdaysToday(user_id) ==
    SelectSeq(store["contact"],
        LAMBDA c : /\ c.user_id = user_id /\ c.birthday # NoDate
                   /\ c.birthday.m = today.m /\ c.birthday.d = today.d)

\* the incomplete tasks of the user due today
DueToday(user_id) ==
    SelectSeq(store["task"],
        LAMBDA t : t.user_id = user_id /\ t.completed = FALSE /\ t.due_date = today)

\* C3 (under SpecDash): the alerts are one birthday alert per fetched contact
\* whose birthday falls on today's month and day, in fetch order, followed by
\* one deadline alert per fetched incomplete task due today, in fetch order,
\* cut to the first 5: min(5, contacts + tasks) alerts, never more than 5.
C3_DashboardAlerts ==
    DashboardRead =>
        LET alerts == resp.body.alerts
            bs == BirthdaysToday(resp.req.user_id)
            ts == DueToday(resp.req.user_id)
        IN /\ Len(alerts) = Min(5, Len(bs) + Len(ts))
           /\ Len(alerts) <= 5
           /\ \A i \in 1..Len(alerts) :
                IF i <= Len(bs)
                THEN alerts[i] = [type |-> "birthday", name |-> bs[i].name]
                ELSE alerts[i] = [type |-> "deadline", title |-> ts[i - Len(bs)].title]

\* three contacts with today's birthday and three tasks due today: six
\* qualify, five alerts are returned, the birthdays first
C3_Witness ==
    /\ DashboardRead
    /\ Len(BirthdaysToday(resp.req.user_id)) = 3
    /\ Len(DueToday(resp.req.user_id)) = 3
    /\ Len(resp.body.alerts) = 5
    /\ resp.body.alerts[3].type = "birthday"
    /\ resp.body.alerts[4].type = "deadline"

\* the energy-type health logs of the user, oldest first
EnergyLogsOf(user_id) ==
    SelectSeq(store["healthlog"], LAMBDA h : h.user_id = user_id /\ h.type = "energy")

\* C4 (under SpecEnergy): the dashboard's energy is the value of the user's
\* most recently created energy-type health log, and the default 70 when the
\* user has none, however many such logs the user has.
C4_EnergyIsLatestLog ==
    DashboardRead =>
        LET logs == EnergyLogsOf(resp.req.user_id)
        IN resp.body.energy = IF logs = <<>> THEN 70 ELSE Last(logs).value

---------------------------------------------------------------------------
(* main.py: the remaining create and list endpoints *)

FocusBlockDoc(u) ==
    [user_id |-> u, title |-> "Deep work", start_time |-> 9, end_time |-> 10,
     objective |-> None]

GoalDoc(u, title, progress) ==
    [user_id |-> u, title |-> title, horizon |-> "weekly", progress |-> progress,
     actions |-> <<>>]

MealPlanDoc(u, day) ==
    [user_id |-> u, date |-> day, meals |-> <<>>, objective |-> "energia",
     shopping_list |-> <<>>]

FamilyItemDoc(u) ==
    [user_id |-> u, type |-> "maintenance", title |-> "Boiler", due_date |-> NoDate,
     notes |-> None]

NoteDoc(u) ==
    [user_id |-> u, title |-> "Idea", content |-> "text", type |-> "note",
     created_at |-> clock]

create_focus_block(block) ==
    IF ~dbAvail
    THEN /\ resp' = Unavailable("create_focus_block", block)
         /\ UNCHANGED <<dbAvail, clock, today, store, nextOid, pc, loc>>
    ELSE /\ \E c2 \in Later : InsertOne("focusblock", block, c2)
         /\ resp' = Ok("create_focus_block", block, [id |-> StrOfOid(nextOid)])
         /\ UNCHANGED <<dbAvail, today, pc, loc>>

create_goal(goal) ==
    IF ~dbAvail
    THEN /\ resp' = Unavailable("create_goal", goal)
         /\ UNCHANGED <<dbAvail, clock, today, store, nextOid, pc, loc>>
    ELSE /\ \E c2 \in Later : InsertOne("goal", goal, c2)
         /\ resp' = Ok("create_goal", goal, [id |-> StrOfOid(nextOid)])
         /\ UNCHANGED <<dbAvail, today, pc, loc>>

create_meal_plan(mp) ==
    IF ~dbAvail
    THEN /\ resp' = Unavailable("create_meal_plan", mp)
         /\ UNCHANGED <<dbAvail, clock, today, store, nextOid, pc, loc>>
    ELSE /\ \E c2 \in Later : InsertOne("mealplan", mp, c2)
         /\ resp' = Ok("create_meal_plan", mp, [id |-> StrOfOid(nextOid)])
         /\ UNCHANGED <<dbAvail, today, pc, loc>>

create_family_item(item) ==
    IF ~dbAvail
    THEN /\ resp' = Unavailable("create_family_item", item)
         /\ UNCHANGED <<dbAvail, clock, today, store, nextOid, pc, loc>>
    ELSE /\ \E c2 \in Later : InsertOne("familyitem", item, c2)
         /\ resp' = Ok("create_family_item", item, [id |-> StrOfOid(nextOid)])
         /\ UNCHANGED <<dbAvail, today, pc, loc>>

\* a note's own created_at is overwritten by the adapter's (database.py:40)
create_note(n) ==
    IF ~dbAvail
    THEN /\ resp' = Unavailable("create_note", n)
         /\ UNCHANGED <<dbAvail, clock, today, store, nextOid, pc, loc>>
    ELSE /\ \E c2 \in Later :
              InsertOne("note", [f \in DOMAIN n \ {"created_at"} |-> n[f]], c2)
         /\ resp' = Ok("create_note", n, [id |-> StrOfOid(nextOid)])
         /\ UNCHANGED <<dbAvail, today, pc, loc>>

\* a list endpoint: get_documents under a filter and a limit
Listing(op, req, coll, filt, limit) ==
    /\ resp' = IF ~dbAvail THEN Unavailable(op, req)
               ELSE Ok(op, req, [docs |-> GetDocuments(coll, filt, limit)])
    /\ UNCHANGED <<dbAvail, clock, today, store, nextOid, pc, loc>>

list_tasks(user_id, scope) ==
    Listing("list_tasks", [user_id |-> user_id, scope |-> scope], "task",
        <<Eq("user_id", user_id)>> \o (IF Truthy(scope) THEN <<Eq("scope", scope)>> ELSE <<>>), 200)

list_focus_blocks(user_id) ==
    Listing("list_focus_blocks", [user_id |-> user_id], "focusblock",
        <<Eq("user_id", user_id)>>, 200)

list_goals(user_id, horizon) ==
    Listing("list_goals", [user_id |-> user_id, horizon |-> horizon], "goal",
        <<Eq("user_id", user_id)>> \o (IF Truthy(horizon) THEN <<Eq("horizon", horizon)>> ELSE <<>>), 200)

list_health(user_id, type) ==
    Listing("list_health", [user_id |-> user_id, type |-> type], "healthlog",
        <<Eq("user_id", user_id)>> \o (IF Truthy(type) THEN <<Eq("type", type)>> ELSE <<>>), 500)

list_meal_plans(user_id, day) ==
    Listing("list_meal_plans", [user_id |-> user_id, day |-> day], "mealplan",
        <<Eq("user_id", user_id)>> \o (IF day # NoDate THEN <<Eq("date", day)>> ELSE <<>>), 30)

list_family_items(user_id, type) ==
    Listing("list_family_items", [user_id |-> user_id, type |-> type], "familyitem",
        <<Eq("user_id", user_id)>> \o (IF Truthy(type) THEN <<Eq("type", type)>> ELSE <<>>), 200)

list_contacts(user_id) ==
    Listing("list_contacts", [user_id |-> user_id], "contact",
        <<Eq("user_id", user_id)>>, 500)

list_notes(user_id, type) ==
    Listing("list_notes", [user_id |-> user_id, type |-> type], "note",
        <<Eq("user_id", user_id)>> \o (IF Truthy(type) THEN <<Eq("type", type)>> ELSE <<>>), 500)

list_habits(user_id) ==
    Listing("list_habits", [user_id |-> user_id], "habit",
        <<Eq("user_id", user_id)>>, 200)

---------------------------------------------------------------------------
(* main.py: POST /ai/center, /ai/weekly-plan, /ai/goals-review *)

\* a prompt is the sequence of its words; needle in haystack
Contains(haystack, needle) ==
    \E i \in 1..(Len(haystack) - Len(needle) + 1) :
        SubSeq(haystack, i, i + Len(needle) - 1) = needle

\* main.py:207-217
CenterAnswer(prompt) ==
    LET p == [i \in 1..Len(prompt) |-> Lower(prompt[i])]
    IN IF Contains(p, <<"organiza", "a", "minha", "semana">>) THEN [plan |-> "semana"]
       ELSE IF Contains(p, <<"plano", "alimentar">>) \/ Contains(p, <<"alimentar">>)
       THEN [meal_plan |-> "plano alimentar"]
       ELSE IF Contains(p, <<"reformula">>) \/ Contains(p, <<"prioridades">>)
       THEN [priorities |-> <<"proposta", "treino", "chamada">>]
       ELSE IF Contains(p, <<"revisão", "mensal">>) \/ Contains(p, <<"revisao">>)
       THEN [review |-> "revisão mensal"]
       ELSE [message |-> "Pedido recebido"]

\* an ai_center that records only the prompts no keyword matched
ai_center_audit_fallback_only(user_id, prompt) ==
    LET req == [user_id |-> user_id, prompt |-> prompt]
    IN IF ~dbAvail
       THEN /\ resp' = Unavailable("ai_center", req)
            /\ UNCHANGED <<dbAvail, clock, today, store, nextOid, pc, loc>>
       ELSE /\ IF "message" \in DOMAIN CenterAnswer(prompt)
               THEN \E c2 \in Later :
                       InsertOne("airequest",
                           AuditDoc(user_id, "center", [prompt |-> prompt]), c2)
               ELSE UNCHANGED <<clock, store, nextOid>>
            /\ resp' = Ok("ai_center", req, CenterAnswer(prompt))
            /\ UNCHANGED <<dbAvail, today, pc, loc>>

ai_center(user_id, prompt) ==
    LET req == [user_id |-> user_id, prompt |-> prompt]
    IN IF ~dbAvail
       THEN /\ resp' = Unavailable("ai_center", req)
            /\ UNCHANGED <<dbAvail, clock, today, store, nextOid, pc, loc>>
       ELSE /\ \E c2 \in Later :
                 InsertOne("airequest", AuditDoc(user_id, "center", [prompt |-> prompt]), c2)
            /\ resp' = Ok("ai_center", req, CenterAnswer(prompt))
            /\ UNCHANGED <<dbAvail, today, pc, loc>>

\* date.isoformat(): YYYY-MM-DD, as the triple of its numbers
IsoFormat(dt) == <<dt.y, dt.m, dt.d>>

WeekDays == 7

ai_weekly_plan(user_id, week_start) ==
    LET req == [user_id |-> user_id, week_start |-> week_start]
        start == IF week_start # NoDate THEN week_start ELSE today
        events == GetDocuments("event", <<Eq("user_id", user_id)>>, 200)
        blocks == [i \in 1..WeekDays |->
                      [day |-> IsoFormat(AddDays(start, i - 1)),
                       focus |-> <<"09:00-10:30", "16:00-16:30">>, tips |-> "deep work"]]
    IN IF ~dbAvail
       THEN /\ resp' = Unavailable("ai_weekly_plan", req)
            /\ UNCHANGED <<dbAvail, clock, today, store, nextOid, pc, loc>>
       ELSE /\ \E c2 \in Later :
                 InsertOne("airequest",
                     AuditDoc(user_id, "weekly_plan", [week_start |-> IsoFormat(start)]), c2)
            /\ resp' = Ok("ai_weekly_plan", req,
                          [week_start |-> IsoFormat(start), plan |-> blocks,
                           events_considered |-> Len(events)])
            /\ UNCHANGED <<dbAvail, today, pc, loc>>

RECURSIVE SumProgress(_, _)
SumProgress(goals, i) ==
    IF i > Len(goals) THEN 0 ELSE goals[i].progress + SumProgress(goals, i + 1)

\* round(n / d): to the nearest integer, a tie to the even one
RoundHalfEven(n, d) ==
    LET q == n \div d
        r == n % d
    IN IF 2 * r < d THEN q
       ELSE IF 2 * r > d THEN q + 1
       ELSE IF q % 2 = 0 THEN q ELSE q + 1

ReviewedGoals == 3

ai_goals_review(user_id, horizon) ==
    LET req == [user_id |-> user_id, horizon |-> horizon]
        goals == GetDocuments("goal", <<Eq("user_id", user_id)>>, 200)
        avg == RoundHalfEven(SumProgress(goals, 1), IF Len(goals) > 1 THEN Len(goals) ELSE 1)
        first == Take(goals, ReviewedGoals)
        actions == [i \in 1..Len(first) |->
                       [goal |-> first[i].title,
                        next_actions |-> <<"definir", "agendar", "metrica">>]]
    IN IF ~dbAvail
       THEN /\ resp' = Unavailable("ai_goals_review", req)
            /\ UNCHANGED <<dbAvail, clock, today, store, nextOid, pc, loc>>
       ELSE IF goals = <<>>
       THEN /\ resp' = Ok("ai_goals_review", req,
                          [summary |-> "Sem objetivos", actions |-> <<>>])
            /\ UNCHANGED <<dbAvail, clock, today, store, nextOid, pc, loc>>
       ELSE /\ \E c2 \in Later :
                 InsertOne("airequest",
                     AuditDoc(user_id, "goals_review",
                              [horizon |-> OrElse(horizon, "all")]), c2)
            /\ resp' = Ok("ai_goals_review", req,
                          [average_progress |-> avg, recommendations |-> actions])
            /\ UNCHANGED <<dbAvail, today, pc, loc>>

---------------------------------------------------------------------------
(* The AI endpoints are called and goals are created.  nextOid counts the
   documents inserted so far *)

Prompts ==
    {<<"Organiza", "a", "minha", "Semana">>, <<"plano", "ALIMENTAR">>,
     <<"novas", "prioridades">>, <<"revisao">>, <<"bom", "dia">>}

GoalInputs ==
    {GoalDoc("ana@x.pt", "Ler", 20), GoalDoc("ana@x.pt", "Correr", 65),
     GoalDoc("rui@x.pt", "Poupar", 90)}

InitAI ==
    /\ dbAvail = TRUE
    /\ clock = MaxClock
    /\ today = Today0
    /\ store = EmptyStore
    /\ nextOid = 0
    /\ resp = NoResp
    /\ pc = Idle
    /\ loc = NoLoc

NextAI ==
    \/ \E u \in Users, p \in Prompts : nextOid < MaxAIDocs /\ ai_center(u, p)
    \/ \E u \in Users, w \in {NoDate, D(2026, 12, 28)} :
          nextOid < MaxAIDocs /\ ai_weekly_plan(u, w)
    \/ \E u \in Users, h \in {None, "weekly"} : nextOid < MaxAIDocs /\ ai_goals_review(u, h)
    \/ \E g \in GoalInputs : nextOid < MaxAIDocs /\ create_goal(g)

SpecAI == InitAI /\ [][NextAI]_vars

\* C5: with the store available, every invocation of ai_center appends exactly
\* one audit document of kind 'center' carrying the caller's user_id and
\* prompt to airequest, whichever branch answers, and changes no other
\* collection and no document already stored.
C5_CenterAppendsOneAudit ==
    [][\A u \in Users, p \in Prompts :
          (dbAvail /\ ai_center(u, p)) =>
              /\ Len(store'["airequest"]) = Len(store["airequest"]) + 1
              /\ SubSeq(store'["airequest"], 1, Len(store["airequest"])) = store["airequest"]
              /\ Last(store'["airequest"]).kind = "center"
              /\ Last(store'["airequest"]).user_id = u
              /\ Last(store'["airequest"]).parameters = [prompt |-> p]
              /\ \A c \in Collections \ {"airequest"} : store'[c] = store[c]]_vars

\* three invocations, a keyword branch and the fallback among them, left three
\* audit documents of kind center
C5_Witness ==
    /\ resp.op = "ai_center" /\ resp.status = "ok"
    /\ resp.body = [message |-> "Pedido recebido"]
    /\ Len(store["airequest"]) = 3
    /\ \A i \in 1..3 : store["airequest"][i].kind = "center"
    /\ store["airequest"][1].parameters.prompt = <<"Organiza", "a", "minha", "Semana">>
    /\ \A c \in Collections \ {"airequest"} : store[c] = <<>>

---------------------------------------------------------------------------
(* main.py: POST /auth/login, GET /test, GET / *)

\* email.split("@")[0]
LocalPart(email) ==
    CASE email = "ana@x.pt" -> "ana"
      [] email = "rui@x.pt" -> "rui"
      [] OTHER -> email

\* db["user"].find_one({"email": email}): the index of the first match, or 0
FindOneUser(email) == FirstWith(store["user"], "email", email, 1)

\* main.py:44-46  the request reads the user collection, unless db is None
login_find(p, email, name) ==
    LET i == IF dbAvail THEN FindOneUser(email) ELSE 0
    IN /\ pc[p] = "idle"
       /\ pc' = [pc EXCEPT ![p] = "found"]
       /\ loc' = [loc EXCEPT ![p] =
                    [email |-> email, name |-> name, found |-> i # 0,
                     found_name |-> IF i # 0 THEN store["user"][i].name ELSE None]]
       /\ UNCHANGED <<dbAvail, clock, today, store, nextOid, resp>>

\* main.py:47-50  it inserts the user if it found none, and answers
login_finish(p) ==
    LET l == loc[p]
        fallback == LocalPart(l.email)
        resolved_name == OrElse(l.name, OrElse(l.found_name, fallback))
    IN /\ pc[p] = "found"
       /\ IF ~l.found /\ dbAvail
          THEN \E c2 \in Later :
                  InsertOne("user", [name |-> OrElse(l.name, fallback), email |-> l.email], c2)
          ELSE UNCHANGED <<clock, store, nextOid>>
       /\ resp' = Ok("login", [email |-> l.email, name |-> l.name],
                     [token |-> l.email, user_id |-> l.email, name |-> resolved_name])
       /\ pc' = [pc EXCEPT ![p] = "idle"]
       /\ loc' = [loc EXCEPT ![p] = NoLocal]
       /\ UNCHANGED <<dbAvail, today>>

\* db.list_collection_names(): the collections that hold a document
test_database ==
    /\ resp' = Ok("test_database", NoBody,
                  IF dbAvail
                  THEN [backend |-> "running", db |-> TRUE,
                        collections |-> {c \in Collections : store[c] # <<>>},
                        db_status |-> "connected"]
                  ELSE [backend |-> "running", db |-> FALSE, db_status |-> "not_configured"])
    /\ UNCHANGED <<dbAvail, clock, today, store, nextOid, pc, loc>>

read_root ==
    /\ resp' = Ok("read_root", NoBody, [name |-> "Gestor", status |-> "ok"])
    /\ UNCHANGED <<dbAvail, clock, today, store, nextOid, pc, loc>>

---------------------------------------------------------------------------
(* Login requests run concurrently, each in two steps *)

Names == {None, "Ana"}

InFlight == Cardinality({p \in Procs : pc[p] = "found"})

InitLogin ==
    /\ dbAvail = TRUE
    /\ clock = MaxClock
    /\ today = Today0
    /\ store = EmptyStore
    /\ nextOid = 0
    /\ resp = NoResp
    /\ pc = Idle
    /\ loc = NoLoc

NextLogin ==
    \/ \E p \in Procs, e \in Users, n \in Names :
          Len(store["user"]) + InFlight < MaxUsers /\ login_find(p, e, n)
    \/ \E p \in Procs : login_finish(p)

SpecLogin == InitLogin /\ [][NextLogin]_vars

UsersWithEmail(email) == Len(SelectSeq(store["user"], LAMBDA d : d.email = email))

\* C10: the user collection holds exactly one document for each email that has
\* logged in, and never two for one email, however the requests interleave.
C10_OneUserPerEmail ==
    /\ \A e \in Users : UsersWithEmail(e) <= 1
    /\ (resp.op = "login" /\ resp.status = "ok") => UsersWithEmail(resp.req.email) = 1

---------------------------------------------------------------------------
(* The store connection was never established: db is None *)

InitUnavail ==
    /\ dbAvail = FALSE
    /\ clock = 0
    /\ today = Today0
    /\ store = EmptyStore
    /\ nextOid = 0
    /\ resp = NoResp
    /\ pc = Idle
    /\ loc = NoLoc

NextUnavail ==
    \/ \E u \in Users : create_task(TaskDoc(u, "medium", NoDate, FALSE))
    \/ \E e \in EventInputs : create_event(e)
    \/ \E u \in Users : create_focus_block(FocusBlockDoc(u))
    \/ \E g \in GoalInputs : create_goal(g)
    \/ \E u \in Users : create_health(HealthDoc(u, "energy", 40))
    \/ \E u \in Users : create_meal_plan(MealPlanDoc(u, Today0))
    \/ \E u \in Users : create_family_item(FamilyItemDoc(u))
    \/ \E c \in DashContactInputs : create_contact(c)
    \/ \E u \in Users : create_note(NoteDoc(u))
    \/ \E u \in Users : create_habit(HabitDoc(u))
    \/ \E u \in Users, sc \in {None, "personal"} : list_tasks(u, sc)
    \/ \E u \in Users, r \in {<<NoneTime, NoneTime>>, <<9, 12>>} : list_events(u, r[1], r[2])
    \/ \E u \in Users : list_focus_blocks(u)
    \/ \E u \in Users, h \in {None, "weekly"} : list_goals(u, h)
    \/ \E u \in Users, t \in {None, "energy"} : list_health(u, t)
    \/ \E u \in Users, d \in {NoDate, Today0} : list_meal_plans(u, d)
    \/ \E u \in Users, t \in {None, "maintenance"} : list_family_items(u, t)
    \/ \E u \in Users : list_contacts(u)
    \/ \E u \in Users, t \in {None, "note"} : list_notes(u, t)
    \/ \E u \in Users : list_habits(u)
    \/ \E id \in EventIds, p \in EventUpdates : update_event(id, p)
    \/ \E u \in Users : dashboard(u)
    \/ \E u \in Users, p \in Prompts : ai_center(u, p)
    \/ \E u \in Users : ai_prioritize(u, None)
    \/ \E u \in Users, w \in {NoDate, D(2026, 12, 28)} : ai_weekly_plan(u, w)
    \/ \E u \in Users, h \in {None, "weekly"} : ai_goals_review(u, h)
    \/ \E p \in Procs, e \in Users, n \in Names : login_find(p, e, n)
    \/ \E p \in Procs : login_finish(p)
    \/ test_database
    \/ read_root
    \/ Tick

SpecUnavail == InitUnavail /\ [][NextUnavail]_vars

Creates ==
    {"create_task", "create_event", "create_focus_block", "create_goal", "create_health",
     "create_meal_plan", "create_family_item", "create_contact", "create_note",
     "create_habit"}

Lists ==
    {"list_tasks", "list_events", "list_focus_blocks", "list_goals", "list_health",
     "list_meal_plans", "list_family_items", "list_contacts", "list_notes", "list_habits"}

AIEndpoints == {"ai_center", "ai_prioritize", "ai_weekly_plan", "ai_goals_review"}

StoreOps == Creates \cup Lists \cup AIEndpoints \cup {"update_event", "dashboard"}

\* C9 as stated: with db None every operation but /test (and the root banner,
\* which touches no data) fails with the store-unavailable condition, login
\* included.
C9_AllButTestFail ==
    (~dbAvail /\ resp.op \notin {"none", "test_database", "read_root"})
        => resp.status = "store_unavailable"

\* C9 as amended: with db None every create, list, update, dashboard and AI
\* endpoint fails with the store-unavailable condition and nothing is ever
\* stored; login completes, answering token = user_id = email and a name,
\* without reading or writing the store; /test completes, reporting
\* not_configured.
C9_StoreOpsFailLoginAndTestComplete ==
    ~dbAvail =>
        /\ store = EmptyStore /\ nextOid = 0
        /\ resp.op \in StoreOps \cup {"login", "test_database", "read_root", "none"}
        /\ resp.op \in StoreOps => resp.status = "store_unavailable"
        /\ resp.op = "login" =>
              /\ resp.status = "ok"
              /\ resp.body.token = resp.req.email /\ resp.body.user_id = resp.req.email
              /\ resp.body.name = OrElse(resp.req.name, LocalPart(resp.req.email))
        /\ resp.op = "test_database" =>
              resp.status = "ok" /\ resp.body.db_status = "not_configured"

\* with db None a note was refused while a login request is in flight
C9_Witness ==
    /\ ~dbAvail
    /\ resp.op = "create_note" /\ resp.status = "store_unavailable"
    /\ \E p \in Procs : pc[p] = "found"
    /\ store = EmptyStore

====
